---- MODULE Spec2Model ----
(***************************************************************************)
(* Model of the isochrone computation pipeline of goat-core:               *)
(*   src/src/crud/crud_isochrone.py   (CRUDIsochroneBase,                  *)
(*                                     CRUDIsochroneActiveMobility,        *)
(*                                     CRUDIsochronePT)                    *)
(*   src/src/schemas/active_mobility.py (travel cost schemas)              *)
(*                                                                         *)
(* One request is one sequential task.  Every await of the code (a SQL     *)
(* statement, an HTTP post) and every blocking sleep is one step of the    *)
(* model; the Python local `i` is one variable, shared as in the code by   *)
(* the batch loops, the per-point loop and the retry loops.                *)
(***************************************************************************)
EXTENDS Integers, Sequences, FiniteSets, TLC

VARIABLES
    mode,          \* "am" (CRUDIsochroneActiveMobility) or "pt" (CRUDIsochronePT)
    literal,       \* TRUE: params.starting_points carries latitude/longitude lists;
                   \* FALSE: it carries layer_project_id only
    pts,           \* the supplied points (literal), or the points of the referenced layer
    pc,            \* position of the task inside isochrone()
    i,             \* the Python local i (0-based)
    it,            \* next value of the iterator of the per-point loop (line 304)
    cnt,           \* cnt_not_intersecting of the last validated batch
    rows,          \* rows of table_starting_points written by this request
    startPts,      \* (lat, lon) rows fetched by get_lats_lons: lats[k], lons[k]
    attempts,      \* HTTP posts issued by the current retry loop
    delays,        \* time.sleep(RETRY_DELAY) calls of the current retry loop
    inflight,      \* HTTP posts issued and not yet answered
    lastStatus,    \* how the last post of the current retry loop ended: its status
                   \* code, -1 when the post raised, 0 before the first answer
    result,        \* PT: response.content kept on a 200 answer
    err,           \* the exception that ended the request
    backendCalled, \* some HTTP post or region lookup was issued in this request
    persisted,     \* PT: per-point-loop iterations whose write_isochrone_result returned
    resLayers,     \* create_feature_layer_tool(layer_isochrone) calls
    spLayers,      \* create_feature_layer_tool(layer_starting_points) calls
    isoType,       \* params.isochrone_type.value
    analysed,      \* PT: iterations that entered the retry loop, in order
    contoured,     \* PT: iterations for which generate_jsolines was called
    writeTried,    \* PT: iterations for which write_isochrone_result was called
    sink,          \* PT: iterations whose result rows were inserted into result_table
    shapeRows,     \* PT: rows of shapes["incremental"] of the last contoured point
    cost,          \* the travel-cost input handed to the schema constructor
    costState,     \* "input", "accepted" or "rejected"
    running,       \* the request whose coroutine holds the event-loop thread, 0: none
    task,          \* per concurrent request: position in the retry loop, i, status
    surface,       \* the travel-time surface the analysis engine computed
    content,       \* response.content: header fields and the delta-coded values
    grid,          \* isochrone_grid: what decode_r5_grid returned, or its failure
    steps,         \* the ascending thresholds handed to generate_jsolines
    shapes,        \* isochrone_shapes: cells per threshold, cumulative and incremental
    gpc,           \* position in encode -> transmit -> decode -> contour
    folders,       \* per user: the number of folders, the home folder included
    fcnt,          \* per user: cnt of fixture_create_exceed_folders
    fstatus,       \* per user: response.status_code of the last folder post
    fassert,       \* per user: every assert of the fixture has held so far
    bphase,        \* compute_station_buffer: "idle", "try", "except", "returned", "raised"
    bstmt,         \* the statement of the try block or of the handler that runs next
    tempTables,    \* the job-scoped temporary tables that exist
    bcaught,       \* e, the exception bound by the except clause
    berr           \* the exception that leaves the method

vars == <<mode, literal, pts, pc, i, it, cnt, rows, startPts, attempts, delays,
          inflight, lastStatus, result, err, backendCalled, persisted,
          resLayers, spLayers, isoType, analysed, contoured, writeTried, sink,
          shapeRows, cost, costState, running, task,
          surface, content, grid, steps, shapes, gpc,
          folders, fcnt, fstatus, fassert,
          bphase, bstmt, tempTables, bcaught, berr>>

requestVars == <<mode, literal, pts, pc, i, it, cnt, rows, startPts, attempts,
                 delays, inflight, lastStatus, result, err, backendCalled,
                 persisted, resLayers, spLayers, isoType, analysed, contoured,
                 writeTried, sink, shapeRows>>

logVars == <<isoType, analysed, contoured, writeTried, sink, shapeRows>>

costVars == <<cost, costState>>

\* The event loop and the requests it runs concurrently.
schedVars == <<running, task>>

\* CRUDOevGueteklasse.compute_station_buffer.
bufferVars == <<bphase, bstmt, tempTables, bcaught, berr>>

\* The folder quota as exercised by the test fixture.
folderVars == <<folders, fcnt, fstatus, fassert>>

\* The grid codec and the contour generator.
gridVars == <<surface, content, grid, steps, shapes, gpc>>

\* The variables of the components that no isochrone request step touches.
extraVars == <<gridVars, folderVars, bufferVars>>

(***************************************************************************)
(* Bounds of the model.                                                    *)
(***************************************************************************)
\* Longest list of starting points explored.
MaxPoints == 3

\* Batch size of the geofence check and of the insert.  The code uses 500
\* (range(0, n, 500) and [i : i + 500]); the model explores the same loops
\* with a batch of ChunkSize points so that lists of MaxPoints points span
\* several batches.
ChunkSize == 2

(***************************************************************************)
(* The world the request runs in.                                          *)
(***************************************************************************)
\* Coordinates: a 2 x 2 grid of (latitude, longitude) values.
Coords == {0, 1}

\* The geofence table: the set of (lat, lon) that intersect a geofence
\* polygon.  A service area is not a product of a latitude range and a
\* longitude range: (1, 0) lies outside while (0, 0), (0, 1), (1, 1) lie inside.
Geofence == {<<0, 0>>, <<0, 1>>, <<1, 1>>}

\* The region mapping table: the (lat, lon) covered by an R5 region.
RegionTable == {<<0, 0>>, <<0, 1>>}

\* IsochroneType: polygon, network, rectangular_grid.
IsochroneTypes == {"polygon", "network", "rectangular_grid"}

PointLists == UNION {[1..n -> Coords \X Coords] : n \in 1..MaxPoints}

Min(a, b) == IF a < b THEN a ELSE b


(***************************************************************************)
(* Exceptions.  An exception is its type and the message it carries:       *)
(* `count` is the number interpolated into the message of the geofence     *)
(* error, `cause` is str(e) of the wrapped exception.                      *)
(***************************************************************************)
NoError == [type |-> "none", cause |-> "none", count |-> 0]

Exc(t, c) == [type |-> t, cause |-> c, count |-> 0]

OutOfGeofenceError(n) == [type |-> "OutOfGeofenceError", cause |-> "geofence", count |-> n]

RoutingEndpointError(c) == Exc("RoutingEndpointError", c)

R5EndpointError(c) == Exc("R5EndpointError", c)

R5IsochroneComputeError(c) == Exc("R5IsochroneComputeError", c)

SQLError(c) == Exc("SQLError", c)

(***************************************************************************)
(* CRUDIsochroneBase.create_layer_starting_points                          *)
(***************************************************************************)
\* s[k : k + n] of Python, k 0-based.
Slice(s, k, n) == SubSeq(s, k + 1, Min(k + n, Len(s)))

Lat(p) == p[1]

Lon(p) == p[2]

\* FROM UNNEST(ARRAY lats) AS lat, UNNEST(ARRAY lons) AS lon: two set-returning
\* functions in one FROM list are cross-joined, so the statement sees one
\* row for every (lat, lon) combination of the batch, in lat-major order.
CrossRows(batch) ==
    [k \in 1..(Len(batch) * Len(batch)) |->
        <<Lat(batch[((k - 1) \div Len(batch)) + 1]),
          Lon(batch[((k - 1) % Len(batch)) + 1])>>]

\* SELECT COUNT(*) FROM to_test t WHERE NOT EXISTS (geofence row intersecting t).
CountNotIntersecting(batch) ==
    Cardinality({k \in DOMAIN CrossRows(batch) : CrossRows(batch)[k] \notin Geofence})

\* Mutant: the raise needs more than one row outside.
GeofenceRaises_MoreThanOne(c) == c > 1

\* if cnt_not_intersecting > 0: raise OutOfGeofenceError
GeofenceRaises(c) == c > 0

\* The number of supplied points that lie outside the geofence (K of the spec).
OutsideCount(ps) == Cardinality({k \in DOMAIN ps : ps[k] \notin Geofence})

\* get_lats_lons, first branch: layer_project_id set -> get_layers_project,
\* else create_layer_starting_points, whose first loop starts at i = 0.
ResolveStartingPoints ==
    /\ pc = "start"
    /\ pc' = IF literal THEN "validate" ELSE "fetch"
    /\ i' = 0
    /\ UNCHANGED <<mode, literal, pts, it, cnt, rows, startPts, attempts, delays,
                   inflight, lastStatus, result, err, backendCalled, persisted,
                   resLayers, spLayers>>
    /\ UNCHANGED logVars

\* Mutant: the first loop stops after its first batch.
MoreToValidate_FirstOnly(k) == FALSE

\* for i in range(0, len(params.starting_points.latitude), 500) of the first
\* loop: there is a batch after the one starting at k.
MoreToValidate(k) == k + ChunkSize < Len(pts)

\* One iteration of the loop of lines 49-75: the count query of one batch,
\* the raise inside the loop, else the next i of range(0, n, 500).
ValidateBatch ==
    /\ pc = "validate"
    /\ LET c == CountNotIntersecting(Slice(pts, i, ChunkSize))
       IN  /\ cnt' = c
           /\ IF GeofenceRaises(c)
              THEN /\ pc' = "failed"
                   /\ err' = OutOfGeofenceError(c)
                   /\ i' = i
              ELSE /\ err' = err
                   /\ IF MoreToValidate(i)
                      THEN pc' = "validate" /\ i' = i + ChunkSize
                      ELSE pc' = "insert" /\ i' = 0
    /\ UNCHANGED <<mode, literal, pts, it, rows, startPts, attempts, delays,
                   inflight, lastStatus, result, backendCalled, persisted,
                   resLayers, spLayers>>
    /\ UNCHANGED logVars

\* One iteration of the loop of lines 78-89: the insert statement of one batch.
InsertBatch ==
    /\ pc = "insert"
    /\ rows' = rows \o CrossRows(Slice(pts, i, ChunkSize))
    /\ IF i + ChunkSize < Len(pts)
       THEN pc' = "insert" /\ i' = i + ChunkSize
       ELSE pc' = "fetch" /\ i' = i
    /\ UNCHANGED <<mode, literal, pts, it, cnt, startPts, attempts, delays,
                   inflight, lastStatus, result, err, backendCalled, persisted,
                   resLayers, spLayers>>
    /\ UNCHANGED logVars

\* get_lats_lons, lines 108-121: SELECT ST_X(geom), ST_Y(geom) of the rows of
\* the layer; rows come back in table order.
FetchStartingPoints ==
    /\ pc = "fetch"
    /\ startPts' = IF literal THEN rows ELSE pts
    /\ pc' = IF mode = "am" THEN "am_enter" ELSE "pt_enter"
    /\ UNCHANGED <<mode, literal, pts, i, it, cnt, rows, attempts, delays,
                   inflight, lastStatus, result, err, backendCalled, persisted,
                   resLayers, spLayers>>
    /\ UNCHANGED logVars

(***************************************************************************)
(* The backends.                                                           *)
(***************************************************************************)
STILL_PROCESSING == 202

AM_DONE == 201

PT_DONE == 200

\* A status that is neither 202 nor a success status ("anything else").
OtherStatuses == {500}

\* What one HTTP post can end in: a response with a status code, or an
\* exception raised by http_client.post itself.
Responses ==
    {[kind |-> "status", code |-> c] :
        c \in {STILL_PROCESSING, AM_DONE, PT_DONE} \cup OtherStatuses}
    \cup {[kind |-> "exception", code |-> -1]}

\* raise: the exception leaves isochrone(); nothing after it runs.
Raise(e) == pc' = "failed" /\ err' = e

(***************************************************************************)
(* CRUDIsochroneActiveMobility                                             *)
(***************************************************************************)
AM_NUM_RETRIES == 5

AM_RETRY_DELAY == 2

\* Mutant: the check of the last attempt is missing.
AMLastAttempt_Never(k) == FALSE

\* Mutant: the iterator of the retry loop does not advance.
NextAttempt_Stuck(k) == k

\* for i in range(self.NUM_RETRIES): the value of i after the current one.
NextAttempt(k) == k + 1

\* if i == self.NUM_RETRIES - 1
AMLastAttempt(k) == k = AM_NUM_RETRIES - 1

\* response.status_code == 202
AMStillProcessing(code) == code = STILL_PROCESSING

\* Mutant: every status but 202 ends the loop as a success.
AMFinished_AnyOther(code) == code # STILL_PROCESSING

\* response.status_code == 201
AMFinished(code) == code = AM_DONE

\* Mutant: the exception of the try block is re-raised as it is.
AMWrap_Raw(cause) == Exc("Exception", cause)

\* except Exception as e: raise RoutingEndpointError(f"...: {str(e)}")
AMWrap(cause) == RoutingEndpointError(cause)

\* request_payload["starting_points"]: {"latitude": lats, "longitude": lons},
\* the lists returned by get_lats_lons, paired by position.
AMPayloadPoints == startPts

\* Lines 153-192: the result layer object, the request payload, and the
\* first i of range(self.NUM_RETRIES).
AMEnterLoop ==
    /\ pc = "am_enter"
    /\ pc' = "am_loop"
    /\ i' = 0
    /\ UNCHANGED <<mode, literal, pts, it, cnt, rows, startPts, attempts, delays,
                   inflight, lastStatus, result, err, backendCalled, persisted,
                   resLayers, spLayers>>
    /\ UNCHANGED logVars

\* await self.http_client.post(url=GOAT_ROUTING_URL/isochrone, ...)
AMPost ==
    /\ pc = "am_loop"
    /\ pc' = "am_wait"
    /\ inflight' = inflight + 1
    /\ attempts' = attempts + 1
    /\ backendCalled' = TRUE
    /\ UNCHANGED <<mode, literal, pts, i, it, cnt, rows, startPts, delays,
                   lastStatus, result, err, persisted, resLayers, spLayers>>
    /\ UNCHANGED logVars

\* The post returns (or raises); the if / elif / else on response.status_code.
AMResponse ==
    /\ pc = "am_wait"
    /\ inflight' = inflight - 1
    /\ \E r \in Responses :
        IF r.kind = "exception"
        THEN /\ Raise(AMWrap("http_exception"))
             /\ lastStatus' = r.code
        ELSE /\ lastStatus' = r.code
             /\ IF AMStillProcessing(r.code)
                THEN IF AMLastAttempt(i)
                     THEN Raise(AMWrap("timeout"))
                     ELSE pc' = "am_sleep" /\ err' = err
                ELSE IF AMFinished(r.code)
                     THEN pc' = "am_layers" /\ err' = err
                     ELSE Raise(AMWrap("response_text"))
    /\ UNCHANGED <<mode, literal, pts, i, it, cnt, rows, startPts, attempts,
                   delays, result, backendCalled, persisted, resLayers, spLayers>>
    /\ UNCHANGED logVars

\* time.sleep(self.RETRY_DELAY); continue: the next i of range(NUM_RETRIES),
\* or the end of the for loop when the range is used up.
AMSleep ==
    /\ pc = "am_sleep"
    /\ delays' = delays + 1
    /\ IF NextAttempt(i) < AM_NUM_RETRIES
       THEN pc' = "am_loop" /\ i' = NextAttempt(i)
       ELSE pc' = "am_layers" /\ i' = i
    /\ UNCHANGED <<mode, literal, pts, it, cnt, rows, startPts, attempts,
                   inflight, lastStatus, result, err, backendCalled, persisted,
                   resLayers, spLayers>>
    /\ UNCHANGED logVars

\* How the two create_feature_layer_tool calls can end: both return, the
\* first raises, or (when the second is made) the second raises.
LayerOutcomes == {"ok", "result_layer_raises"} \cup
                 (IF literal THEN {"starting_layer_raises"} ELSE {})

\* create_feature_layer_tool is called outside every try block: what it
\* raises leaves isochrone() as it is.
LayerFailure == Raise(Exc("Exception", "create_feature_layer_tool"))

\* The layer counters after the two calls ended in outcome o.
LayersAfter(o) ==
    /\ resLayers' = IF o = "result_layer_raises" THEN resLayers ELSE resLayers + 1
    /\ spLayers' = IF literal /\ o = "ok" THEN spLayers + 1 ELSE spLayers

\* Lines 217-231: create the result layer, the starting-point layer when the
\* points were not a layer, and return the finished status.
AMCreateLayers ==
    /\ pc = "am_layers"
    /\ \E o \in LayerOutcomes :
        /\ LayersAfter(o)
        /\ IF o = "ok" THEN pc' = "finished" /\ err' = err ELSE LayerFailure
    /\ UNCHANGED <<mode, literal, pts, i, it, cnt, rows, startPts, attempts,
                   delays, inflight, lastStatus, result, backendCalled,
                   persisted>>
    /\ UNCHANGED logVars

(***************************************************************************)
(* CRUDIsochronePT                                                         *)
(***************************************************************************)
PT_NUM_RETRIES == 10

PT_RETRY_DELAY == 2

\* Mutant: the check of the last attempt is missing.
PTLastAttempt_Never(k) == FALSE

\* Mutant: the last attempt is compared with NUM_RETRIES.
PTLastAttempt_OffByOne(k) == k = PT_NUM_RETRIES

\* if i == self.NUM_RETRIES - 1
PTLastAttempt(k) == k = PT_NUM_RETRIES - 1

\* Mutant: every status but 200 is taken as still processing.
PTStillProcessing_AnyUnfinished(code) == code # PT_DONE

\* response.status_code == 202
PTStillProcessing(code) == code = STILL_PROCESSING

\* response.status_code == 200
PTFinished(code) == code = PT_DONE

\* except Exception as e: raise R5EndpointError(f"...: {str(e)}")
PTWrap(cause) == R5EndpointError(cause)

\* StartingPointSet: the points are either supplied literally or referenced
\* by a layer; a request that references a layer carries no latitude and
\* longitude lists.
ParamsLatitudeAbsent == ~literal

\* Lines 291-304: the result layer object, then range(0, len(
\* params.starting_points.latitude)) is built once.  Starting points given
\* as a layer carry no latitude list (request example "layer_based_walking"),
\* and len(None) raises TypeError.
PTEnterLoop ==
    /\ pc = "pt_enter"
    /\ it' = 0
    /\ IF ParamsLatitudeAbsent
       THEN Raise(Exc("TypeError", "len_of_none"))
       ELSE pc' = "pt_loop" /\ err' = err
    /\ UNCHANGED <<mode, literal, pts, i, cnt, rows, startPts, attempts, delays,
                   inflight, lastStatus, result, backendCalled, persisted,
                   resLayers, spLayers>>
    /\ UNCHANGED logVars

\* for i in range(0, len(params.starting_points.latitude)): the iterator
\* assigns its next value to i, or the loop ends and isochrone() returns
\* the finished status (lines 458-461).
PTNextPoint ==
    /\ pc = "pt_loop"
    /\ IF it < Len(pts)
       THEN pc' = "pt_region" /\ i' = it /\ it' = it + 1
       ELSE pc' = "finished" /\ i' = i /\ it' = it
    /\ UNCHANGED <<mode, literal, pts, cnt, rows, startPts, attempts, delays,
                   inflight, lastStatus, result, err, backendCalled, persisted,
                   resLayers, spLayers>>
    /\ UNCHANGED logVars

\* The point of the region lookup in iteration k of the per-point loop:
\* params.starting_points.longitude[i], latitude[i] (lines 312-313).
LookupPoint(k) == pts[k]

\* The point of the bounds query and of fromLat, fromLon in iteration k:
\* lats[i], lons[i], the rows fetched by get_lats_lons (lines 333-334,
\* 372-373).
OriginPoint(k) == startPts[k]

\* Lines 306-322: the region lookup of params.starting_points.longitude[i],
\* latitude[i]; fetchall()[0] raises IndexError when no region matches.
PTResolveRegion ==
    /\ pc = "pt_region"
    /\ backendCalled' = TRUE
    /\ IF pts[i + 1] \in RegionTable
       THEN pc' = "pt_bounds" /\ err' = err
       ELSE Raise(Exc("IndexError", "no_region"))
    /\ UNCHANGED <<mode, literal, pts, i, it, cnt, rows, startPts, attempts,
                   delays, inflight, lastStatus, result, persisted, resLayers,
                   spLayers>>
    /\ UNCHANGED logVars

\* Lines 326-389: the bounds query around lons[i], lats[i], the request
\* payload, result = None and the first i of range(self.NUM_RETRIES).
PTRegionBounds ==
    /\ pc = "pt_bounds"
    /\ IF i + 1 \in DOMAIN startPts
       THEN /\ pc' = "pt_post"
            /\ err' = err
            /\ i' = 0
            /\ analysed' = Append(analysed, it)
       ELSE /\ Raise(Exc("IndexError", "lons_i"))
            /\ i' = i
            /\ analysed' = analysed
    /\ result' = "None"
    /\ attempts' = 0
    /\ delays' = 0
    /\ lastStatus' = 0
    /\ UNCHANGED <<mode, literal, pts, it, cnt, rows, startPts, inflight,
                   backendCalled, persisted, resLayers, spLayers>>
    /\ UNCHANGED <<isoType, contoured, writeTried, sink, shapeRows>>

\* await self.http_client.post(url=r5_host/api/analysis, ...)
PTPost ==
    /\ pc = "pt_post"
    /\ pc' = "pt_wait"
    /\ inflight' = inflight + 1
    /\ attempts' = attempts + 1
    /\ backendCalled' = TRUE
    /\ UNCHANGED <<mode, literal, pts, i, it, cnt, rows, startPts, delays,
                   lastStatus, result, err, persisted, resLayers, spLayers>>
    /\ UNCHANGED logVars

\* The post returns (or raises); the if / elif / else on response.status_code.
PTResponse ==
    /\ pc = "pt_wait"
    /\ inflight' = inflight - 1
    /\ \E r \in Responses :
        IF r.kind = "exception"
        THEN /\ Raise(PTWrap("http_exception"))
             /\ lastStatus' = r.code
             /\ result' = result
        ELSE /\ lastStatus' = r.code
             /\ IF PTStillProcessing(r.code)
                THEN /\ result' = result
                     /\ IF PTLastAttempt(i)
                        THEN Raise(PTWrap("timeout"))
                        ELSE pc' = "pt_sleep" /\ err' = err
                ELSE IF PTFinished(r.code)
                     THEN pc' = "pt_decode" /\ err' = err /\ result' = "content"
                     ELSE Raise(PTWrap("response_text")) /\ result' = result
    /\ UNCHANGED <<mode, literal, pts, i, it, cnt, rows, startPts, attempts,
                   delays, backendCalled, persisted, resLayers, spLayers>>
    /\ UNCHANGED logVars

\* time.sleep(self.RETRY_DELAY); continue.
PTSleep ==
    /\ pc = "pt_sleep"
    /\ delays' = delays + 1
    /\ IF NextAttempt(i) < PT_NUM_RETRIES
       THEN pc' = "pt_post" /\ i' = NextAttempt(i)
       ELSE pc' = "pt_decode" /\ i' = i
    /\ UNCHANGED <<mode, literal, pts, it, cnt, rows, startPts, attempts,
                   inflight, lastStatus, result, err, backendCalled, persisted,
                   resLayers, spLayers>>
    /\ UNCHANGED logVars

\* Mutant: the failure of one point is recorded and the loop goes on.
PTComputeFailure_Raw(stage) == Raise(Exc("Exception", stage))

PTComputeFailure_Swallow(stage) ==
    pc' = "pt_loop" /\ err' = R5IsochroneComputeError(stage)

\* except Exception as e: raise R5IsochroneComputeError(...) (lines 426-429)
PTComputeFailure(stage) == Raise(R5IsochroneComputeError(stage))

\* except Exception as e: raise SQLError(...) (lines 440-443)
PTWriteFailure == Raise(SQLError("write"))

\* isochrone_grid = decode_r5_grid(result): returns a grid or raises.
PTDecode ==
    /\ pc = "pt_decode"
    /\ \E ok \in BOOLEAN :
        IF ok /\ result = "content"
        THEN pc' = "pt_contour" /\ err' = err
        ELSE PTComputeFailure("decode")
    /\ UNCHANGED <<mode, literal, pts, i, it, cnt, rows, startPts, attempts,
                   delays, inflight, lastStatus, result, backendCalled,
                   persisted, resLayers, spLayers>>
    /\ UNCHANGED logVars

\* The numbers of rows of shapes["incremental"] that are explored: none (no
\* cell reachable at any threshold) or some.
ShapeRowCounts == {0, 2}

\* isochrone_shapes = generate_jsolines(...): returns shapes or raises.
PTContour ==
    /\ pc = "pt_contour"
    /\ contoured' = contoured \cup {it}
    /\ \E ok \in BOOLEAN :
        IF ok
        THEN /\ pc' = "pt_write"
             /\ err' = err
             /\ \E n \in ShapeRowCounts : shapeRows' = n
        ELSE /\ PTComputeFailure("contour")
             /\ shapeRows' = shapeRows
    /\ UNCHANGED <<mode, literal, pts, i, it, cnt, rows, startPts, attempts,
                   delays, inflight, lastStatus, result, backendCalled,
                   persisted, resLayers, spLayers>>
    /\ UNCHANGED <<isoType, analysed, writeTried, sink>>

\* write_isochrone_result: if isochrone_type == "polygon" the rows of the
\* incremental shapes are inserted; else: pass.
WritesRows(t) == t = "polygon"

\* insert_string gets one "(layer_id, geom, minute)," per row of the shapes;
\* with no row the statement reads INSERT INTO ... VALUES ; which the
\* database rejects as a syntax error.
ValuesListPresent(n) == n > 0

\* await self.write_isochrone_result(...): for a polygon result the insert
\* succeeds or raises; for the other types the call returns at once.
PTWrite ==
    /\ pc = "pt_write"
    /\ writeTried' = writeTried \cup {it}
    /\ IF WritesRows(isoType)
       THEN \E ok \in BOOLEAN :
              IF ~ValuesListPresent(shapeRows)
              THEN /\ Raise(SQLError("empty_values"))
                   /\ persisted' = persisted
                   /\ sink' = sink
              ELSE IF ok
              THEN /\ pc' = "pt_layers"
                   /\ err' = err
                   /\ persisted' = persisted \cup {it}
                   /\ sink' = sink \cup {it}
              ELSE /\ PTWriteFailure
                   /\ persisted' = persisted
                   /\ sink' = sink
       ELSE /\ pc' = "pt_layers"
            /\ err' = err
            /\ persisted' = persisted \cup {it}
            /\ sink' = sink
    /\ UNCHANGED <<mode, literal, pts, i, it, cnt, rows, startPts, attempts,
                   delays, inflight, lastStatus, result, backendCalled,
                   resLayers, spLayers>>
    /\ UNCHANGED <<isoType, analysed, contoured, shapeRows>>

\* Lines 445-455, inside the per-point loop: create the result layer and,
\* when the points were not a layer, the starting-point layer.
PTCreateLayers ==
    /\ pc = "pt_layers"
    /\ \E o \in LayerOutcomes :
        /\ LayersAfter(o)
        /\ IF o = "ok" THEN pc' = "pt_loop" /\ err' = err ELSE LayerFailure
    /\ UNCHANGED <<mode, literal, pts, i, it, cnt, rows, startPts, attempts,
                   delays, inflight, lastStatus, result, backendCalled,
                   persisted>>
    /\ UNCHANGED logVars

(***************************************************************************)
(* The request.                                                            *)
(***************************************************************************)
\* The requests that one event loop runs concurrently.
Tasks == {1, 2}

\* No payload has been received and nothing has been decoded or contoured.
NoSurface == [width |-> 0, height |-> 0, depth |-> 0, data |-> <<>>]

NoShapes == [cumulative |-> <<>>, incremental |-> <<>>]

\* compute_station_buffer has not been called.
InitNoBuffer ==
    /\ bphase = "idle"
    /\ bstmt = 0
    /\ tempTables = {}
    /\ bcaught = NoError
    /\ berr = NoError

\* The users of the test session.
Users == {1, 2}

\* fixture_create_user: a new user owns the home folder and nothing else;
\* the fixture has not posted yet.
InitFolders ==
    /\ folders = [u \in Users |-> 1]
    /\ fcnt = [u \in Users |-> 0]
    /\ fstatus = [u \in Users |-> 0]
    /\ fassert = [u \in Users |-> TRUE]

InitExtra ==
    /\ surface = NoSurface
    /\ content = NoSurface
    /\ grid = [status |-> "none", surface |-> NoSurface]
    /\ steps = <<>>
    /\ shapes = NoShapes
    /\ gpc = "idle"
    /\ InitFolders
    /\ InitNoBuffer

\* A request that has reached its retry loop: isochrone() is at the top of
\* the body of for i in range(self.NUM_RETRIES) with i = 0.
NewTask == [pc |-> "loop", i |-> 0, status |-> 0]

Init ==
    /\ mode \in {"am", "pt"}
    /\ literal \in BOOLEAN
    /\ pts \in PointLists
    /\ pc = "start"
    /\ i = 0
    /\ it = 0
    /\ cnt = 0
    /\ rows = <<>>
    /\ startPts = <<>>
    /\ attempts = 0
    /\ delays = 0
    /\ inflight = 0
    /\ lastStatus = 0
    /\ result = "None"
    /\ err = NoError
    /\ backendCalled = FALSE
    /\ persisted = {}
    /\ resLayers = 0
    /\ spLayers = 0
    /\ isoType \in IsochroneTypes
    /\ analysed = <<>>
    /\ contoured = {}
    /\ writeTried = {}
    /\ sink = {}
    /\ shapeRows = 0
    /\ cost = [kind |-> "time", max |-> 1, steps |-> 1, speed |-> 1]
    /\ costState = "accepted"
    /\ running = 0
    /\ task = [t \in Tasks |-> NewTask]
    /\ InitExtra

Next ==
    \/ (ResolveStartingPoints /\ UNCHANGED <<costVars, schedVars, extraVars>>)
    \/ (ValidateBatch /\ UNCHANGED <<costVars, schedVars, extraVars>>)
    \/ (InsertBatch /\ UNCHANGED <<costVars, schedVars, extraVars>>)
    \/ (FetchStartingPoints /\ UNCHANGED <<costVars, schedVars, extraVars>>)
    \/ (AMEnterLoop /\ UNCHANGED <<costVars, schedVars, extraVars>>)
    \/ (AMPost /\ UNCHANGED <<costVars, schedVars, extraVars>>)
    \/ (AMResponse /\ UNCHANGED <<costVars, schedVars, extraVars>>)
    \/ (AMSleep /\ UNCHANGED <<costVars, schedVars, extraVars>>)
    \/ (AMCreateLayers /\ UNCHANGED <<costVars, schedVars, extraVars>>)
    \/ (PTEnterLoop /\ UNCHANGED <<costVars, schedVars, extraVars>>)
    \/ (PTNextPoint /\ UNCHANGED <<costVars, schedVars, extraVars>>)
    \/ (PTResolveRegion /\ UNCHANGED <<costVars, schedVars, extraVars>>)
    \/ (PTRegionBounds /\ UNCHANGED <<costVars, schedVars, extraVars>>)
    \/ (PTPost /\ UNCHANGED <<costVars, schedVars, extraVars>>)
    \/ (PTResponse /\ UNCHANGED <<costVars, schedVars, extraVars>>)
    \/ (PTSleep /\ UNCHANGED <<costVars, schedVars, extraVars>>)
    \/ (PTDecode /\ UNCHANGED <<costVars, schedVars, extraVars>>)
    \/ (PTContour /\ UNCHANGED <<costVars, schedVars, extraVars>>)
    \/ (PTWrite /\ UNCHANGED <<costVars, schedVars, extraVars>>)
    \/ (PTCreateLayers /\ UNCHANGED <<costVars, schedVars, extraVars>>)

Spec == Init /\ [][Next]_vars

\* isochrone() is straight-line code between its awaits, and every awaited
\* call (HTTP post, database statement) returns or raises: a step that can be
\* taken is taken.
SpecFair == Spec /\ WF_vars(Next)

(***************************************************************************)
(* Travel cost schemas (src/src/schemas/active_mobility.py).  Constructing *)
(* a schema object runs the Field constraints and the validator of steps;  *)
(* the object exists only if none of them raises.                          *)
(***************************************************************************)
MAX_TRAVELTIME_GE == 1

MAX_TRAVELTIME_LE == 45

SPEED_GE == 1

SPEED_LE == 25

MAX_DISTANCE_GE == 50

MAX_DISTANCE_LE == 20000

TIME_STEPS_LIMIT == 45

DISTANCE_STEPS_LIMIT == 20000

\* TravelTimeCostActiveMobility.valid_num_steps: if v > 45: raise ValueError
TimeStepsRaises(v) == v > TIME_STEPS_LIMIT

\* TravelDistanceCostActiveMobility.valid_num_steps: if v > 20000: raise ValueError
DistanceStepsRaises(v) == v > DISTANCE_STEPS_LIMIT

\* TravelTimeCostActiveMobility(max_traveltime=, steps=, speed=) is constructed.
TimeCostAccepted(c) ==
    /\ c.max >= MAX_TRAVELTIME_GE
    /\ c.max <= MAX_TRAVELTIME_LE
    /\ ~TimeStepsRaises(c.steps)
    /\ c.speed >= SPEED_GE
    /\ c.speed <= SPEED_LE

\* TravelDistanceCostActiveMobility(max_distance=, steps=) is constructed.
DistanceCostAccepted(c) ==
    /\ c.max >= MAX_DISTANCE_GE
    /\ c.max <= MAX_DISTANCE_LE
    /\ ~DistanceStepsRaises(c.steps)

\* Inputs explored: values at, inside and just outside every limit.
TimeCostInputs ==
    [kind : {"time"}, max : {0, 1, 10, 30, 45, 46},
     steps : {-1, 1, 10, 20, 45, 46}, speed : {0, 1, 5, 25, 26}]

DistanceCostInputs ==
    [kind : {"distance"}, max : {49, 50, 500, 20000, 20001},
     steps : {-1, 1, 50, 1000, 20000, 20001}, speed : {0}]

ConstructTimeCost ==
    /\ costState = "input"
    /\ cost.kind = "time"
    /\ costState' = IF TimeCostAccepted(cost) THEN "accepted" ELSE "rejected"
    /\ UNCHANGED cost

ConstructDistanceCost ==
    /\ costState = "input"
    /\ cost.kind = "distance"
    /\ costState' = IF DistanceCostAccepted(cost) THEN "accepted" ELSE "rejected"
    /\ UNCHANGED cost

InitCost ==
    /\ cost \in TimeCostInputs \cup DistanceCostInputs
    /\ costState = "input"
    /\ mode = "am"
    /\ literal = TRUE
    /\ pts = <<<<0, 0>>>>
    /\ pc = "schema"
    /\ i = 0
    /\ it = 0
    /\ cnt = 0
    /\ rows = <<>>
    /\ startPts = <<>>
    /\ attempts = 0
    /\ delays = 0
    /\ inflight = 0
    /\ lastStatus = 0
    /\ result = "None"
    /\ err = NoError
    /\ backendCalled = FALSE
    /\ persisted = {}
    /\ resLayers = 0
    /\ spLayers = 0
    /\ isoType = "polygon"
    /\ analysed = <<>>
    /\ contoured = {}
    /\ writeTried = {}
    /\ sink = {}
    /\ shapeRows = 0
    /\ running = 0
    /\ task = [t \in Tasks |-> NewTask]
    /\ InitExtra

NextCost ==
    \/ (ConstructTimeCost /\ UNCHANGED <<requestVars, schedVars, extraVars>>)
    \/ (ConstructDistanceCost /\ UNCHANGED <<requestVars, schedVars, extraVars>>)

SpecCost == InitCost /\ [][NextCost]_vars

(***************************************************************************)
(* Two isochrone requests on one event loop.  isochrone() is a coroutine:  *)
(* it gives the thread back to the event loop at an await and nowhere      *)
(* else.  A request is at "loop" (about to post), "wait" (suspended in     *)
(* await http_client.post), "resume" (the response is there, the coroutine *)
(* can be resumed), "sleep" (inside time.sleep) or "done" (the loop ended).*)
(***************************************************************************)
\* The positions at which a request needs the thread to go on.
Runnable == {"loop", "resume"}

\* time.sleep(self.RETRY_DELAY) is a plain blocking call, not an await: the
\* thread stays with the coroutine that called it.
SleepKeepsThread(t) == t

\* The event loop, idle, resumes a coroutine that can go on.
LoopResume(t) ==
    /\ running = 0
    /\ task[t].pc \in Runnable
    /\ running' = t
    /\ UNCHANGED task

\* response = await self.http_client.post(...): the request is sent and the
\* coroutine is suspended; the thread goes back to the event loop.
TaskPost(t) ==
    /\ running = t
    /\ task[t].pc = "loop"
    /\ task' = [task EXCEPT ![t].pc = "wait"]
    /\ running' = 0

\* The backend answers the post of request t.
TaskResponse(t) ==
    /\ task[t].pc = "wait"
    /\ \E c \in {STILL_PROCESSING, AM_DONE} \cup OtherStatuses :
        task' = [task EXCEPT ![t].pc = "resume", ![t].status = c]
    /\ UNCHANGED running

\* The resumed coroutine runs the if / elif / else on response.status_code:
\* on 202 before the last attempt it calls time.sleep, else the loop ends
\* (break or raise) and the request goes on to its next await.
TaskBranch(t) ==
    /\ running = t
    /\ task[t].pc = "resume"
    /\ IF AMStillProcessing(task[t].status) /\ ~AMLastAttempt(task[t].i)
       THEN /\ task' = [task EXCEPT ![t].pc = "sleep"]
            /\ running' = SleepKeepsThread(t)
       ELSE /\ task' = [task EXCEPT ![t].pc = "done"]
            /\ running' = 0

\* time.sleep returns; continue: the next i, the next post.
TaskSleepReturns(t) ==
    /\ task[t].pc = "sleep"
    /\ running = t
    /\ task' = [task EXCEPT ![t].pc = "loop", ![t].i = @ + 1]
    /\ UNCHANGED running

\* The steps request t takes itself.
TaskStep(t) ==
    LoopResume(t) \/ TaskPost(t) \/ TaskBranch(t) \/ TaskSleepReturns(t)

InitSched ==
    /\ running = 0
    /\ task = [t \in Tasks |-> NewTask]
    /\ InitExtra
    /\ mode = "am"
    /\ literal = TRUE
    /\ pts = <<<<0, 0>>>>
    /\ pc = "am_loop"
    /\ i = 0
    /\ it = 0
    /\ cnt = 0
    /\ rows = <<>>
    /\ startPts = <<>>
    /\ attempts = 0
    /\ delays = 0
    /\ inflight = 0
    /\ lastStatus = 0
    /\ result = "None"
    /\ err = NoError
    /\ backendCalled = FALSE
    /\ persisted = {}
    /\ resLayers = 0
    /\ spLayers = 0
    /\ isoType = "polygon"
    /\ analysed = <<>>
    /\ contoured = {}
    /\ writeTried = {}
    /\ sink = {}
    /\ shapeRows = 0
    /\ cost = [kind |-> "time", max |-> 1, steps |-> 1, speed |-> 1]
    /\ costState = "accepted"

NextSched ==
    \/ (\E t \in Tasks : LoopResume(t) /\ UNCHANGED <<requestVars, costVars, extraVars>>)
    \/ (\E t \in Tasks : TaskPost(t) /\ UNCHANGED <<requestVars, costVars, extraVars>>)
    \/ (\E t \in Tasks : TaskResponse(t) /\ UNCHANGED <<requestVars, costVars, extraVars>>)
    \/ (\E t \in Tasks : TaskBranch(t) /\ UNCHANGED <<requestVars, costVars, extraVars>>)
    \/ (\E t \in Tasks : TaskSleepReturns(t) /\ UNCHANGED <<requestVars, costVars, extraVars>>)

SpecSched == InitSched /\ [][NextSched]_vars

(***************************************************************************)
(* The grid codec (decode_r5_grid) and the contour generator               *)
(* (generate_jsolines), called by CRUDIsochronePT.isochrone.  A surface is *)
(* width x height cells in each of depth bands, stored band after band in  *)
(* row-major order; the payload carries the header fields and one          *)
(* delta-coded signed integer per cell.                                    *)
(***************************************************************************)
\* The most cells (width x height x bands) of a surface that is explored.
MaxCells == 4

\* The width in bits of a stored signed integer, scaled down from 32.
GridBits == 4

\* The largest threshold that is explored.
MaxStep == 3

RECURSIVE Pow2(_)
Pow2(n) == IF n = 0 THEN 1 ELSE 2 * Pow2(n - 1)

MaxValue == Pow2(GridBits - 1) - 1

MinValue == -MaxValue - 1

\* Signed integer arithmetic of the stored width: the result wraps around.
Wrap(x) == ((x - MinValue) % Pow2(GridBits)) + MinValue

\* The reserved maximum-magnitude value that marks a cell as unreachable.
UNREACHABLE == MaxValue

CellValues == {0, 1, 2, UNREACHABLE, MinValue}

Dimensions ==
    {d \in (1..MaxCells) \X (1..MaxCells) \X (1..MaxCells) :
        d[1] * d[2] * d[3] <= MaxCells}

Surfaces ==
    UNION {[width : {d[1]}, height : {d[2]}, depth : {d[3]},
            data : [1..(d[1] * d[2] * d[3]) -> CellValues]] : d \in Dimensions}

\* The number of cells of one band.
GridSize(g) == g.width * g.height

\* Delta coding of a surface: each cell is stored as its difference to the
\* previous cell of the row-major scan, the first cell of each band as its
\* difference to zero.
Encode(g) ==
    [g EXCEPT !.data =
        [n \in DOMAIN g.data |->
            Wrap(g.data[n] -
                 (IF (n - 1) % GridSize(g) = 0 THEN 0 ELSE g.data[n - 1]))]]

\* Mutant: only the first cell of the payload decodes against zero.
FirstOfBand_OnlyFirstCell(n, size) == n = 1

\* The first cell of a band decodes against an implicit zero predecessor.
FirstOfBand(n, size) == (n - 1) % size = 0

\* Cell value = previous cell's value plus the delta read from the stream.
RECURSIVE CellValue(_, _)
CellValue(c, n) ==
    Wrap((IF FirstOfBand(n, GridSize(c)) THEN 0 ELSE CellValue(c, n - 1))
         + c.data[n])

\* Mutant: values left over after the declared cells are ignored.
LengthMatches_AtLeast(c) == Len(c.data) >= c.width * c.height * c.depth

\* The declared width x height x band count matches the remaining length.
LengthMatches(c) == Len(c.data) = c.width * c.height * c.depth

\* decode_r5_grid: a structural error when the length does not match, else
\* the surface of the declared extent.
Decode(c) ==
    IF LengthMatches(c)
    THEN [status |-> "ok",
          surface |-> [c EXCEPT !.data =
                         [n \in 1..(c.width * c.height * c.depth) |->
                             CellValue(c, n)]]]
    ELSE [status |-> "error", surface |-> NoSurface]

\* Ascending lists of thresholds.
StepLists ==
    {st \in UNION {[1..n -> 1..MaxStep] : n \in 1..MaxStep} :
        \A k \in 1..(Len(st) - 1) : st[k] < st[k + 1]}

\* The cells of band b of a surface, numbered 1..GridSize in row-major order.
BandCell(g, b, k) == g.data[(b - 1) * GridSize(g) + k]

\* Mutant: a cell counts only at the threshold it arrives at exactly.
Reachable_Exactly(v, t) == v = t

\* A cell is reachable at a threshold when its arrival value is at most the
\* threshold.
Reachable(v, t) == v <= t

\* Cumulative mode: the cells reachable within each threshold.
Cumulative(g, b, st) ==
    [k \in DOMAIN st |->
        {n \in 1..GridSize(g) : Reachable(BandCell(g, b, n), st[k])}]

\* Mutant: the band is taken against its own cumulative region.
PreviousRegion_Same(cum, k) == cum[k]

\* The cumulative region of the previous threshold, none before the first.
PreviousRegion(cum, k) == IF k = 1 THEN {} ELSE cum[k - 1]

\* Incremental mode: the cumulative region at a threshold without the
\* cumulative region of the previous threshold.
Incremental(cum) ==
    [k \in DOMAIN cum |-> cum[k] \ PreviousRegion(cum, k)]

\* generate_jsolines(grid, travel_time, percentile, steps): both modes.
Jsolines(g, b, st) ==
    [band |-> b,
     cumulative |-> Cumulative(g, b, st),
     incremental |-> Incremental(Cumulative(g, b, st))]

\* The analysis engine answers 200 with the encoded surface.
EncodeSurface ==
    /\ gpc = "surface"
    /\ content' = Encode(surface)
    /\ gpc' = "encoded"
    /\ UNCHANGED <<surface, grid, steps, shapes>>

\* result = response.content: the payload arrives whole, cut short after any
\* number of values, or with a value left over.
ReceiveContent ==
    /\ gpc = "encoded"
    /\ \E n \in 0..(Len(content.data) + 1) :
        content' = [content EXCEPT !.data =
                       [k \in 1..n |-> IF k \in DOMAIN content.data
                                       THEN content.data[k] ELSE 0]]
    /\ gpc' = "received"
    /\ UNCHANGED <<surface, grid, steps, shapes>>

\* isochrone_grid = decode_r5_grid(result)
DecodeGrid ==
    /\ gpc = "received"
    /\ grid' = Decode(content)
    /\ gpc' = IF Decode(content).status = "ok" THEN "decoded" ELSE "failed"
    /\ UNCHANGED <<surface, content, steps, shapes>>

\* isochrone_shapes = generate_jsolines(grid=isochrone_grid, ...)
ContourGrid ==
    /\ gpc = "decoded"
    /\ \E st \in StepLists, b \in 1..grid.surface.depth :
        /\ steps' = st
        /\ shapes' = Jsolines(grid.surface, b, st)
    /\ gpc' = "contoured"
    /\ UNCHANGED <<surface, content, grid>>

\* No isochrone request, no schema construction and no second task is running.
InitIdle ==
    /\ mode = "pt"
    /\ literal = TRUE
    /\ pts = <<<<0, 0>>>>
    /\ pc = "idle"
    /\ i = 0
    /\ it = 0
    /\ cnt = 0
    /\ rows = <<>>
    /\ startPts = <<>>
    /\ attempts = 0
    /\ delays = 0
    /\ inflight = 0
    /\ lastStatus = 0
    /\ result = "None"
    /\ err = NoError
    /\ backendCalled = FALSE
    /\ persisted = {}
    /\ resLayers = 0
    /\ spLayers = 0
    /\ isoType = "polygon"
    /\ analysed = <<>>
    /\ contoured = {}
    /\ writeTried = {}
    /\ sink = {}
    /\ shapeRows = 0
    /\ cost = [kind |-> "time", max |-> 1, steps |-> 1, speed |-> 1]
    /\ costState = "accepted"
    /\ running = 0
    /\ task = [t \in Tasks |-> NewTask]

InitGrid ==
    /\ InitIdle
    /\ surface \in Surfaces
    /\ content = NoSurface
    /\ grid = [status |-> "none", surface |-> NoSurface]
    /\ steps = <<>>
    /\ shapes = NoShapes
    /\ gpc = "surface"
    /\ InitFolders
    /\ InitNoBuffer

NextGrid ==
    \/ (EncodeSurface /\ UNCHANGED <<requestVars, costVars, schedVars, folderVars, bufferVars>>)
    \/ (ReceiveContent /\ UNCHANGED <<requestVars, costVars, schedVars, folderVars, bufferVars>>)
    \/ (DecodeGrid /\ UNCHANGED <<requestVars, costVars, schedVars, folderVars, bufferVars>>)
    \/ (ContourGrid /\ UNCHANGED <<requestVars, costVars, schedVars, folderVars, bufferVars>>)

SpecGrid == InitGrid /\ [][NextGrid]_vars

(***************************************************************************)
(* The folder quota (src/tests/conftest.py): the fixture posts             *)
(* MAX_FOLDER_COUNT folder names for a new user and asserts the status of  *)
(* every response.                                                         *)
(***************************************************************************)
MAX_FOLDER_COUNT == 10

HTTP_CREATED == 201

HTTP_TOO_MANY_REQUESTS == 429

\* The folder endpoint refuses a creation once the user's folders, the home
\* folder included, have reached the limit.
QuotaReached(n) == n >= MAX_FOLDER_COUNT

\* Mutant: the fixture expects the refusal one request later.
ExpectedStatus_OneLater(c) ==
    IF c > MAX_FOLDER_COUNT THEN HTTP_TOO_MANY_REQUESTS ELSE HTTP_CREATED

\* if cnt >= max_folder_cnt: assert 429 else: assert 201
ExpectedStatus(c) ==
    IF c >= MAX_FOLDER_COUNT THEN HTTP_TOO_MANY_REQUESTS ELSE HTTP_CREATED

\* One iteration of the loop of the fixture for user u: cnt += 1, the post,
\* the endpoint's answer, the assert.
PostFolder(u) ==
    /\ fcnt[u] < MAX_FOLDER_COUNT
    /\ fcnt' = [fcnt EXCEPT ![u] = @ + 1]
    /\ IF QuotaReached(folders[u])
       THEN /\ fstatus' = [fstatus EXCEPT ![u] = HTTP_TOO_MANY_REQUESTS]
            /\ folders' = folders
       ELSE /\ fstatus' = [fstatus EXCEPT ![u] = HTTP_CREATED]
            /\ folders' = [folders EXCEPT ![u] = @ + 1]
    /\ fassert' = [fassert EXCEPT ![u] = @ /\ fstatus'[u] = ExpectedStatus(fcnt'[u])]

InitFolder ==
    /\ InitIdle
    /\ InitFolders
    /\ surface = NoSurface
    /\ content = NoSurface
    /\ grid = [status |-> "none", surface |-> NoSurface]
    /\ steps = <<>>
    /\ shapes = NoShapes
    /\ gpc = "idle"
    /\ InitNoBuffer

NextFolder ==
    \E u \in Users :
        PostFolder(u) /\ UNCHANGED <<requestVars, costVars, schedVars, gridVars,
                                      bufferVars>>

SpecFolder == InitFolder /\ [][NextFolder]_vars

(***************************************************************************)
(* CRUDOevGueteklasse.compute_station_buffer                               *)
(* (src/src/crud/crud_motorized_mobility.py).  Every awaited statement of  *)
(* the session returns or raises.                                          *)
(***************************************************************************)
\* temp_buffered_stations and temp_union_buffer.
TempTables == {"buffered_stations", "union_buffer"}

\* The statements of the try block, in order (lines 86-169).
TryStatements ==
    << [op |-> "drop", table |-> "buffered_stations"],
       [op |-> "create", table |-> "buffered_stations"],
       [op |-> "distribute", table |-> "buffered_stations"],
       [op |-> "insert", table |-> "buffered_stations"],
       [op |-> "index", table |-> "buffered_stations"],
       [op |-> "drop", table |-> "union_buffer"],
       [op |-> "create", table |-> "union_buffer"],
       [op |-> "index", table |-> "union_buffer"],
       [op |-> "insert", table |-> "oev_gueteklasse"],
       [op |-> "drop", table |-> "buffered_stations"],
       [op |-> "drop", table |-> "union_buffer"],
       [op |-> "commit", table |-> "none"] >>

\* The statements of the except block before its raise (lines 172-178).
HandlerStatements ==
    << [op |-> "drop", table |-> "buffered_stations"],
       [op |-> "drop", table |-> "union_buffer"],
       [op |-> "commit", table |-> "none"] >>

\* The temporary tables after statement st has returned.
TablesAfter(st, tables) ==
    IF st.op = "drop" THEN tables \ {st.table}
    ELSE IF st.op = "create" /\ st.table \in TempTables THEN tables \cup {st.table}
    ELSE tables

\* The statement an exception of the session names.
StatementName(st) == st.op \o "_" \o st.table

\* What an awaited statement does: it returns, or it raises an exception of
\* one of these classes (asyncio.CancelledError derives from BaseException).
StatementOutcomes == {"returns", "Exception", "CancelledError"}

\* `except Exception` (line 170).
Caught(t) == t = "Exception"

\* The call: the table names are built from the job id (lines 80-82).
BufferCall ==
    /\ bphase = "called"
    /\ bphase' = "try"
    /\ bstmt' = 1
    /\ UNCHANGED <<tempTables, bcaught, berr>>

\* One statement of the try block: it returns, or it raises; an exception
\* the except clause catches enters the handler as e, any other leaves the
\* method.
BufferTryStatement ==
    /\ bphase = "try"
    /\ \E o \in StatementOutcomes :
        IF o = "returns"
        THEN /\ tempTables' = TablesAfter(TryStatements[bstmt], tempTables)
             /\ UNCHANGED <<bcaught, berr>>
             /\ IF bstmt < Len(TryStatements)
                THEN bphase' = "try" /\ bstmt' = bstmt + 1
                ELSE bphase' = "returned" /\ bstmt' = bstmt
        ELSE /\ tempTables' = tempTables
             /\ IF Caught(o)
                THEN /\ bphase' = "except"
                     /\ bstmt' = 1
                     /\ bcaught' = Exc(o, StatementName(TryStatements[bstmt]))
                     /\ berr' = berr
                ELSE /\ bphase' = "raised"
                     /\ bstmt' = bstmt
                     /\ bcaught' = bcaught
                     /\ berr' = Exc(o, StatementName(TryStatements[bstmt]))

\* One statement of the except block: it returns, and after the last one
\* SQLError(e) is raised; or it raises, and its exception leaves the method.
BufferHandlerStatement ==
    /\ bphase = "except"
    /\ \E o \in StatementOutcomes :
        IF o = "returns"
        THEN /\ tempTables' = TablesAfter(HandlerStatements[bstmt], tempTables)
             /\ bcaught' = bcaught
             /\ IF bstmt < Len(HandlerStatements)
                THEN bphase' = "except" /\ bstmt' = bstmt + 1 /\ berr' = berr
                ELSE /\ bphase' = "raised"
                     /\ bstmt' = bstmt
                     /\ berr' = SQLError(bcaught.cause)
        ELSE /\ bphase' = "raised"
             /\ berr' = Exc(o, "handler_" \o StatementName(HandlerStatements[bstmt]))
             /\ UNCHANGED <<bstmt, tempTables, bcaught>>

InitBuffer ==
    /\ InitIdle
    /\ InitFolders
    /\ surface = NoSurface
    /\ content = NoSurface
    /\ grid = [status |-> "none", surface |-> NoSurface]
    /\ steps = <<>>
    /\ shapes = NoShapes
    /\ gpc = "idle"
    /\ bphase = "called"
    /\ bstmt = 0
    /\ tempTables = {}
    /\ bcaught = NoError
    /\ berr = NoError

NextBuffer ==
    \/ (BufferCall /\ UNCHANGED <<requestVars, costVars, schedVars, gridVars, folderVars>>)
    \/ (BufferTryStatement /\ UNCHANGED <<requestVars, costVars, schedVars, gridVars, folderVars>>)
    \/ (BufferHandlerStatement /\ UNCHANGED <<requestVars, costVars, schedVars, gridVars, folderVars>>)

SpecBuffer == InitBuffer /\ [][NextBuffer]_vars

(***************************************************************************)
(* Properties of the retry loops.                                          *)
(***************************************************************************)
\* Seconds slept by the current retry loop.
AMWaited == delays * AM_RETRY_DELAY

PTWaited == delays * PT_RETRY_DELAY

\* In a retry loop an answer other than 202 ends the loop, so lastStatus = 202
\* with k posts answered means that every one of the k answers was 202.
PTAllAnswered202(k) ==
    mode = "pt" /\ attempts = k /\ inflight = 0 /\ lastStatus = STILL_PROCESSING

AMAllAnswered202(k) ==
    mode = "am" /\ attempts = k /\ inflight = 0 /\ lastStatus = STILL_PROCESSING

\* C1: when the analysis engine answers 202 to every attempt for a starting
\* point, the request fails with R5EndpointError carrying the timeout message
\* after exactly 10 posts and exactly 9 sleeps of 2 seconds; there is never
\* an 11th post nor a 10th sleep.
C1_PTTimeoutAfterTenAttempts ==
    /\ mode = "pt" => attempts <= 10 /\ delays <= 9
    /\ PTAllAnswered202(10) =>
          /\ pc = "failed"
          /\ err = R5EndpointError("timeout")
          /\ delays = 9
          /\ PTWaited = 18
    /\ (mode = "pt" /\ err.cause = "timeout") => PTAllAnswered202(10)

C1_Witness ==
    /\ PTAllAnswered202(10)
    /\ pc = "failed"
    /\ err = R5EndpointError("timeout")
    /\ delays = 9

DoneStatus == IF mode = "am" THEN AM_DONE ELSE PT_DONE

InRetryLoop == pc \in {"am_loop", "am_wait", "am_sleep", "pt_post", "pt_wait", "pt_sleep"}

EndpointErrorType == IF mode = "am" THEN "RoutingEndpointError" ELSE "R5EndpointError"

\* C3: in both retry loops a post is issued only when no post is in flight
\* and the previous post of the loop, if any, was answered 202; the success
\* status (201 for the routing service, 200 for the analysis engine) ends the
\* loop without a further post; any other status ends the request with the
\* endpoint error at once; never are two posts in flight.
C3_SequentialAttempts ==
    /\ [](inflight \in {0, 1})
    /\ [][attempts' = attempts + 1 =>
            /\ inflight = 0
            /\ inflight' = 1
            /\ (attempts = 0 \/ lastStatus = STILL_PROCESSING)]_vars
    /\ [](lastStatus = DoneStatus => ~InRetryLoop /\ inflight = 0)
    /\ []((attempts > 0 /\ lastStatus \notin {0, STILL_PROCESSING, DoneStatus}) =>
            /\ pc = "failed"
            /\ err.type = EndpointErrorType
            /\ inflight = 0)
    /\ [][(lastStatus' # lastStatus /\ lastStatus' \notin {0, STILL_PROCESSING, DoneStatus})
            => (pc' = "failed" /\ attempts' = attempts /\ delays' = delays)]_vars

C3_Witness ==
    /\ mode = "pt"
    /\ attempts = 3
    /\ inflight = 1
    /\ lastStatus = STILL_PROCESSING

EndpointCauses == {"timeout", "response_text", "http_exception"}

\* C4: every way a backend exchange can end without success (an error status,
\* an exception of the post itself, the retry budget used up) ends the
\* request with one RoutingEndpointError (routing service) or R5EndpointError
\* (analysis engine) whose message carries the proximate cause; no other
\* exception type leaves a retry loop.
C4_EndpointFailuresWrapped ==
    /\ [][(pc = "am_wait" /\ pc' \notin {"am_wait", "am_sleep", "am_layers"}) =>
            /\ pc' = "failed"
            /\ err' \in {RoutingEndpointError(c) : c \in EndpointCauses}]_vars
    /\ [][(pc = "pt_wait" /\ pc' \notin {"pt_wait", "pt_sleep", "pt_decode"}) =>
            /\ pc' = "failed"
            /\ err' \in {R5EndpointError(c) : c \in EndpointCauses}]_vars
    /\ [][(pc \in {"am_wait", "pt_wait"} /\ lastStatus' = -1) =>
            (pc' = "failed" /\ err'.cause = "http_exception")]_vars
    /\ [][(pc \in {"am_wait", "pt_wait"} /\ lastStatus' \notin {-1, STILL_PROCESSING, DoneStatus}) =>
            (pc' = "failed" /\ err'.cause = "response_text")]_vars
    /\ [][(InRetryLoop /\ err' # err) => err'.type = EndpointErrorType]_vars

C4_Witness ==
    /\ mode = "am"
    /\ pc = "failed"
    /\ err = RoutingEndpointError("http_exception")
    /\ attempts = 2

\* C5: a request with a literal starting point outside the geofence never gets
\* past the validation: it issues no region lookup and no HTTP post, and when
\* it has failed, it has failed with OutOfGeofenceError; and a request that
\* raised OutOfGeofenceError has issued no backend call.
C5_GeofenceBeforeBackend ==
    /\ (literal /\ OutsideCount(pts) > 0) =>
          /\ pc \in {"start", "validate", "failed"}
          /\ ~backendCalled
          /\ attempts = 0
          /\ inflight = 0
          /\ pc = "failed" => err.type = "OutOfGeofenceError"
    /\ err.type = "OutOfGeofenceError" =>
          /\ pc = "failed"
          /\ ~backendCalled
          /\ attempts = 0
          /\ inflight = 0

C5_Witness ==
    /\ literal
    /\ OutsideCount(pts) = 1
    /\ Len(pts) = 1
    /\ pc = "failed"
    /\ err = OutOfGeofenceError(1)

(***************************************************************************)
(* Properties of the geofence validation.                                  *)
(***************************************************************************)
\* The validation of the literal points has ended, in a raise or in a pass.
ValidationEnded == literal /\ pc \notin {"start", "validate"}

GeofenceFailed == err.type = "OutOfGeofenceError"

\* C6: the validation of N literal points of which exactly K lie outside the
\* geofence fails if and only if K > 0, and the count in the error equals K,
\* wherever the batch boundaries fall and however the latitudes and
\* longitudes of a batch are combined.
C6_GeofenceCountExact ==
    ValidationEnded =>
        /\ GeofenceFailed <=> OutsideCount(pts) > 0
        /\ GeofenceFailed => err.count = OutsideCount(pts)

\* C7: the validation checks every batch before it decides: when it fails,
\* the batch checked last is the last batch of the call, also when an earlier
\* batch held points outside the geofence.
C7_FullBatchScan ==
    GeofenceFailed => i + ChunkSize >= Len(pts)

(***************************************************************************)
(* Properties of the travel cost schemas.                                  *)
(***************************************************************************)
\* C8: a time cost with max_traveltime in 1..45 and speed in 1..25 whose
\* steps exceed its max_traveltime is rejected at construction.
C8_TimeStepsWithinMaxTraveltime ==
    (cost.kind = "time" /\ costState = "accepted") => cost.steps <= cost.max

\* C9: a distance cost with max_distance in 50..20000 whose steps exceed its
\* max_distance is rejected at construction.
C9_DistanceStepsWithinMaxDistance ==
    (cost.kind = "distance" /\ costState = "accepted") => cost.steps <= cost.max

(***************************************************************************)
(* Properties of the per-point loop of the transit mode.                   *)
(***************************************************************************)
PTStages == {"pt_post", "pt_wait", "pt_sleep", "pt_decode", "pt_contour", "pt_write"}

\* C10: in transit mode a failure of the analysis call, of the decoding, of
\* the contouring or of the write for one starting point ends the whole
\* request: the step that fails leaves the request failed, after a failure
\* nothing changes any more (no later point is looked up, posted or
\* persisted), and a request that has failed is never finished; a finished
\* request has persisted every point.
C10_PointFailureAbortsRequest ==
    /\ [][(mode = "pt" /\ pc \in PTStages /\ err' # NoError) => pc' = "failed"]_vars
    /\ [][err # NoError =>
            /\ pc' = "failed"
            /\ it' = it
            /\ persisted' = persisted
            /\ attempts' = attempts
            /\ resLayers' = resLayers]_vars
    /\ [](err # NoError => pc = "failed")
    /\ []((mode = "pt" /\ pc = "finished") =>
            (err = NoError /\ persisted = 1..Len(pts)))

C10_Witness ==
    /\ mode = "pt"
    /\ pc = "failed"
    /\ err = R5IsochroneComputeError("contour")
    /\ it = 2
    /\ Len(pts) = 3
    /\ persisted = {1}

(***************************************************************************)
(* Properties of layer creation and of what a finished request has stored. *)
(***************************************************************************)
\* The per-point loop of the transit mode has handled every starting point.
PTLoopCompleted == writeTried = 1..Len(pts)

\* C11: in transit mode the result layer is created only after the per-point
\* loop has completed for all starting points, exactly once per request (so
\* never more than once), and the starting-point layer at most once.
C11_LayersCreatedOnceAfterLoop ==
    mode = "pt" =>
        /\ resLayers <= 1
        /\ spLayers <= 1
        /\ (resLayers > 0 => PTLoopCompleted)
        /\ (pc = "finished" => resLayers = 1)

\* C12: a finished transit request has, for every starting point and for
\* every requested isochrone type, handed the result rows of that point to
\* the sink.
C12_FinishedMeansPersisted ==
    (mode = "pt" /\ pc = "finished") => sink = 1..Len(pts)

(***************************************************************************)
(* Properties of the failures a request can end with.                      *)
(***************************************************************************)
\* The typed failures of the isochrone pipeline: geofence, endpoint,
\* grid/contour compute and persistence errors.
DomainErrorTypes ==
    {"OutOfGeofenceError", "RoutingEndpointError", "R5EndpointError",
     "R5IsochroneComputeError", "SQLError"}

\* C13: every failure that ends an isochrone request is one of the typed
\* domain failures, whatever the stage that failed (region resolution and
\* layer creation included); no raw exception reaches the caller.
C13_EveryFailureTyped ==
    pc = "failed" => err.type \in DomainErrorTypes

\* C14: when decoding the payload of a starting point fails, the request
\* fails with the grid/contour compute error caused by the decoding, and
\* neither the contour computation nor the write is attempted for that point.
C14_DecodeFailureStopsPoint ==
    /\ [][(pc = "pt_decode" /\ pc' # "pt_contour") =>
            /\ pc' = "failed"
            /\ err' = R5IsochroneComputeError("decode")
            /\ contoured' = contoured
            /\ writeTried' = writeTried
            /\ sink' = sink]_vars
    /\ [](err = R5IsochroneComputeError("decode") =>
            /\ pc = "failed"
            /\ it \notin contoured
            /\ it \notin writeTried
            /\ it \notin sink)

C14_Witness ==
    /\ pc = "failed"
    /\ err = R5IsochroneComputeError("decode")
    /\ it = 2
    /\ contoured = {1}
    /\ writeTried = {1}

\* The causes of failures that the hypotheses of C15 exclude: a point outside
\* the geofence or outside every region, a backend exchange that does not end
\* in the success status, and a failing decode, contour, write or layer step.
ExcludedCauses ==
    {"geofence", "no_region", "decode", "contour", "write",
     "create_feature_layer_tool"} \cup EndpointCauses

\* C15: in transit mode, with starting points supplied literally or by a
\* layer and every step of every point succeeding, the per-point loop handles
\* the points once each, in order, and the request ends finished: the
\* iterations that reached the engine are 1, 2, ... in this order, a finished
\* request has handled all of them, and the request does not fail.
C15_EveryPointOnceInOrder ==
    mode = "pt" =>
        /\ \A k \in DOMAIN analysed : analysed[k] = k
        /\ (pc = "finished" => Len(analysed) = Len(pts))
        /\ (pc = "failed" => err.cause \in ExcludedCauses)

(***************************************************************************)
(* Properties of the starting points that are stored and sent.             *)
(***************************************************************************)
\* C16: in active-mobility mode every HTTP attempt carries the full batch:
\* latitude and longitude lists with exactly one entry per supplied starting
\* point, paired as supplied.
C16_PayloadIsSuppliedBatch ==
    (mode = "am" /\ attempts > 0) => AMPayloadPoints = pts

\* C17: saving N literal starting points writes exactly N rows, one for each
\* supplied (latitude, longitude) pair: never more rows than points, and
\* after the last insert statement the stored rows are the supplied pairs.
C17_OneRowPerPoint ==
    literal =>
        /\ Len(rows) <= Len(pts)
        /\ (pc = "fetch" => rows = pts)

(***************************************************************************)
(* Properties of the inter-retry delay on the event loop.                  *)
(***************************************************************************)
\* C18: the inter-retry delay is a suspension point: while one request waits
\* between two attempts, every other request that can go on is able to take
\* its next step.
C18_DelayYieldsToScheduler ==
    \A t \in Tasks :
        task[t].pc = "sleep" =>
            \A u \in Tasks \ {t} :
                task[u].pc \in Runnable => ENABLED TaskStep(u)

AMTimedOut == mode = "am" /\ err = RoutingEndpointError("timeout")

PTTimedOut == mode = "pt" /\ err = R5EndpointError("timeout")

ContentIntact == content = Encode(surface)

\* C21: a surface that is delta-coded and then decoded is reproduced exactly,
\* cell by cell, cells holding the unreachable value included.
C21_DecodeInvertsEncode ==
    (gpc \in {"decoded", "failed", "contoured"} /\ ContentIntact) =>
        /\ grid.status = "ok"
        /\ grid.surface = surface

C21_Witness ==
    /\ gpc = "decoded"
    /\ ContentIntact
    /\ surface.depth = 2
    /\ surface.width = 2
    /\ surface.data = <<UNREACHABLE, MinValue, 1, UNREACHABLE>>
    /\ grid.surface.data = surface.data

\* C22: a payload whose number of values differs from the declared width x
\* height x band count is answered with the structural error, never with a
\* surface; in particular every payload that is too short.
C22_LengthMismatchFails ==
    (gpc \in {"decoded", "failed", "contoured"} /\
     Len(content.data) # content.width * content.height * content.depth) =>
        /\ grid.status = "error"
        /\ grid.surface = NoSurface
        /\ gpc = "failed"

C22_Witness ==
    /\ gpc = "failed"
    /\ grid.status = "error"
    /\ content.width * content.height * content.depth = 4
    /\ Len(content.data) = 3

\* The number of cells classified reachable at threshold k, cumulative mode.
ReachableCount(k) == Cardinality(shapes.cumulative[k])

\* The cells of the contoured band that hold the unreachable value.
UnreachableCells ==
    {n \in 1..GridSize(grid.surface) :
        BandCell(grid.surface, shapes.band, n) = UNREACHABLE}

\* C23: in cumulative mode the number of reachable cells never shrinks as the
\* threshold grows, and a cell holding the unreachable value is reachable at
\* no threshold.
C23_CumulativeMonotone ==
    gpc = "contoured" =>
        /\ \A j \in DOMAIN steps : \A k \in 1..(j - 1) :
               ReachableCount(k) <= ReachableCount(j)
        /\ \A k \in DOMAIN steps :
               shapes.cumulative[k] \cap UnreachableCells = {}

C23_Witness ==
    /\ gpc = "contoured"
    /\ steps = <<1, 2, 3>>
    /\ ReachableCount(1) = 1
    /\ ReachableCount(2) = 2
    /\ ReachableCount(3) = 2
    /\ Cardinality(UnreachableCells) = 1

\* C24: in incremental mode the bands of all thresholds together cover
\* exactly the cumulative region of the largest threshold, and no cell
\* belongs to two bands.
C24_BandsPartitionCumulative ==
    gpc = "contoured" =>
        /\ UNION {shapes.incremental[k] : k \in DOMAIN steps}
               = shapes.cumulative[Len(steps)]
        /\ \A j \in DOMAIN steps : \A k \in 1..(j - 1) :
               shapes.incremental[k] \cap shapes.incremental[j] = {}

C24_Witness ==
    /\ gpc = "contoured"
    /\ Len(steps) = 3
    /\ Cardinality(shapes.incremental[1]) = 1
    /\ Cardinality(shapes.incremental[2]) = 2
    /\ shapes.incremental[3] = {}
    /\ Cardinality(shapes.cumulative[3]) = 3
    /\ Cardinality(UnreachableCells) = 1

C26_OnePointPerIteration ==
    (mode = "pt" /\ pc \in PTStages) =>
        /\ LookupPoint(it) = OriginPoint(it)
        /\ OriginPoint(it) = pts[it]

\* C27: in active-mobility mode a layer is created only after an attempt
\* within the budget was answered 201, every earlier attempt having been
\* answered 202; the finished status follows the creation of the result
\* layer; after a RoutingEndpointError no layer exists; and the
\* starting-point layer is created only for literal starting points, after
\* the result layer.
C27_LayersOnlyAfter201 ==
    /\ [](mode = "am" =>
            /\ (pc = "am_layers" \/ resLayers > 0 \/ spLayers > 0 \/ pc = "finished") =>
                  /\ lastStatus = AM_DONE
                  /\ attempts \in 1..AM_NUM_RETRIES
                  /\ delays = attempts - 1
            /\ (pc = "finished" => resLayers = 1 /\ spLayers = (IF literal THEN 1 ELSE 0))
            /\ (err.type = "RoutingEndpointError" => resLayers = 0 /\ spLayers = 0)
            /\ (spLayers > 0 => literal /\ resLayers > 0))
    /\ [][(mode = "am" /\ pc = "am_wait" /\ pc' = "am_sleep") =>
            lastStatus' = STILL_PROCESSING]_vars

C27_Witness ==
    /\ mode = "am"
    /\ pc = "finished"
    /\ literal
    /\ attempts = 3
    /\ delays = 2
    /\ resLayers = 1
    /\ spLayers = 1

\* The first indexes of the batches of the supplied points.
BatchStarts == {k \in 0..(Len(pts) - 1) : k % ChunkSize = 0}

\* C28: when geofence validation fails no starting-point row has been
\* inserted: no row exists while batches are still being validated or after
\* the geofence error, and a row exists only if every batch has passed the
\* geofence test.
C28_NoInsertBeforeValidation ==
    literal =>
        /\ (pc = "validate" => rows = <<>>)
        /\ (err.type = "OutOfGeofenceError" => rows = <<>>)
        /\ (rows # <<>> =>
               \A k \in BatchStarts :
                   ~GeofenceRaises(CountNotIntersecting(Slice(pts, k, ChunkSize))))

C28_Witness ==
    /\ literal
    /\ pc = "failed"
    /\ err.type = "OutOfGeofenceError"
    /\ i = ChunkSize
    /\ Len(pts) = 3
    /\ rows = <<>>

\* C29: in transit mode a starting point whose contour result holds no ring
\* is not an error: writing the empty result does not fail.
C29_EmptyRingSetIsNoError ==
    (mode = "pt" /\ shapeRows = 0 /\ it \in writeTried) =>
        ~(pc = "failed" /\ err = SQLError("empty_values"))

(***************************************************************************)
(* Properties of compute_station_buffer.                                   *)
(***************************************************************************)
\* C30: whenever compute_station_buffer ends, by returning or by raising,
\* both temporary tables have been dropped, and what it raises is SQLError.
C30_TempTablesDroppedAndSQLError ==
    /\ (bphase \in {"returned", "raised"} => tempTables = {})
    /\ (bphase = "raised" => berr.type = "SQLError")

====
